---- MODULE Spec2Model ----
(***************************************************************************)
(* Model of backend/main.py of the movie explorer: the lazily built        *)
(* DuckDB connection (get_db), the lifespan manager and the /movies        *)
(* listing endpoint (list_movies).                                         *)
(*                                                                         *)
(* Representation.  A value that may be SQL NULL / Python None is a        *)
(* sequence of length at most one: << >> is NULL, <<v>> is the value v.    *)
(* Text is a sequence of one-character strings.  DOUBLE columns hold       *)
(* tenths as integers (ratings 0..100 stand for 0.0..10.0, reliability     *)
(* and min_reliability 0..10 stand for 0.0..1.0).                          *)
(***************************************************************************)
EXTENDS Integers, Sequences, FiniteSets, TLC

VARIABLES
    csv,            \* MOVIES_CSV on disk: NULL when unreadable, else <<rows>>
    parquet,        \* MOVIES_PARQUET on disk: NULL when absent, else <<rows>>
    lifespanOn,     \* the server runs the lifespan protocol around serving
    con,            \* the global connection: NULL or <<handle id>>
    dbs,            \* the DuckDB databases opened so far, by handle id
    pc,             \* position of every process (lifespan and workers)
    has_analytics,  \* get_db's local flag, per process
    db,             \* list_movies' local db = get_db(), per worker
    req,            \* the query parameters of the worker's current request
    resp            \* the worker's last HTTP response

vars == <<csv, parquet, lifespanOn, con, dbs, pc, has_analytics, db, req, resp>>

----------------------------------------------------------------------------
(* Bounds of the model *)

MaxRows == 3
MaxPage == 2
MaxPageSize == 2
NumWorkers == 2

----------------------------------------------------------------------------
(* Nullable values *)

NULL == << >>
Some(v) == <<v>>
IsNull(x) == x = << >>
Val(x) == x[1]

Abs(n) == IF n < 0 THEN 0 - n ELSE n
Min(a, b) == IF a < b THEN a ELSE b
Max(a, b) == IF a > b THEN a ELSE b

\* COALESCE(x, y)
Coalesce(x, y) == IF IsNull(x) THEN y ELSE x

\* SQL subtraction: NULL when either side is NULL
Minus(x, y) == IF IsNull(x) \/ IsNull(y) THEN NULL ELSE Some(Val(x) - Val(y))

----------------------------------------------------------------------------
(* Text: lower() and LIKE *)

LowerChar(c) == IF c = "A" THEN "a" ELSE IF c = "B" THEN "b" ELSE c

Lower(s) == [i \in 1..Len(s) |-> LowerChar(s[i])]

\* DuckDB's LIKE without an ESCAPE clause: % matches any run of characters,
\* _ matches exactly one character, anything else matches itself.
RECURSIVE Like(_, _)
Like(s, p) ==
    IF p = << >> THEN s = << >>
    ELSE IF Head(p) = "%"
         THEN Like(s, Tail(p)) \/ (s # << >> /\ Like(Tail(s), p))
    ELSE IF Head(p) = "_"
         THEN s # << >> /\ Like(Tail(s), Tail(p))
    ELSE s # << >> /\ Head(s) = Head(p) /\ Like(Tail(s), Tail(p))

----------------------------------------------------------------------------
(* The source files.  A CSV row as read_csv_auto delivers it (typed columns, *)
(* NULL for an empty cell); a parquet row of the analytics subset.  The     *)
(* columns that no filter or ordering reads (imdb_url, douban_id, the two   *)
(* douban_url columns) carry stand-in values.                               *)

CsvRow(label, year, region, imdb_id, douban_url_y, imdb_rating, imdb_votes, douban_rating, douban_votes) ==
    [label |-> label, year |-> year, region |-> region, imdb_id |-> imdb_id,
     imdb_url |-> imdb_id, douban_id |-> year,
     douban_url_x |-> Some("x"), douban_url_y |-> douban_url_y,
     imdb_rating |-> imdb_rating, imdb_votes |-> imdb_votes,
     douban_rating |-> douban_rating, douban_votes |-> douban_votes]

\* The rows a catalogue is drawn from: NULLs on every sort column, a tie on
\* score, a title holding a LIKE metacharacter, a NULL title, a NULL imdb_id.
CsvPool ==
    << CsvRow(Some(<<"a", "b">>), Some(2000), Some("US"), Some("tt1"), NULL,
              Some(70), Some(100), Some(80), NULL),
       CsvRow(Some(<<"A", "%">>), Some(2010), Some("CN"), Some("tt2"), Some("y"),
              Some(90), NULL, Some(60), NULL),
       CsvRow(Some(<<"b">>), NULL, NULL, Some("tt3"), NULL,
              NULL, Some(5), Some(50), Some(5)),
       CsvRow(NULL, Some(2000), Some("US"), NULL, NULL,
              Some(70), Some(7), Some(70), Some(7)) >>

\* The analytics subset: tt1 and tt2 tie on score, tt2 has no reliability,
\* tt3 has the best score, tt9 matches no base row.
ParquetRows ==
    << [imdb_id |-> Some("tt1"), movie_key |-> Some("k1"),
        score |-> Some(5), reliability |-> Some(5)],
       [imdb_id |-> Some("tt2"), movie_key |-> Some("k2"),
        score |-> Some(5), reliability |-> NULL],
       [imdb_id |-> Some("tt3"), movie_key |-> Some("k3"),
        score |-> Some(9), reliability |-> Some(0)],
       [imdb_id |-> Some("tt9"), movie_key |-> Some("k9"),
        score |-> Some(1), reliability |-> Some(10)] >>

\* The elements of a set of indices in increasing order
RECURSIVE Ascending(_)
Ascending(S) ==
    IF S = {} THEN << >>
    ELSE LET m == CHOOSE x \in S : \A y \in S : x <= y
         IN <<m>> \o Ascending(S \ {m})

Catalogue(S) == LET ix == Ascending(S) IN [i \in 1..Len(ix) |-> CsvPool[ix[i]]]

\* Every CSV file of at most MaxRows rows of the pool
Catalogues ==
    { Catalogue(S) : S \in { T \in SUBSET (1..Len(CsvPool)) : Cardinality(T) <= MaxRows } }

----------------------------------------------------------------------------
(* Relation builder: the three CREATE TABLE ... AS SELECT statements *)

\* CREATE TABLE base_movies AS SELECT ... FROM read_csv_auto(MOVIES_CSV)
BaseMovieRow(c) ==
    [title |-> c.label, year |-> c.year, region |-> c.region,
     imdb_id |-> c.imdb_id, imdb_url |-> c.imdb_url, douban_id |-> c.douban_id,
     douban_url |-> Coalesce(c.douban_url_y, c.douban_url_x),
     imdb_rating |-> c.imdb_rating, imdb_votes |-> c.imdb_votes,
     douban_rating |-> c.douban_rating, douban_votes |-> c.douban_votes,
     gap |-> Minus(c.douban_rating, c.imdb_rating)]

BaseMovies(rows) == [i \in 1..Len(rows) |-> BaseMovieRow(rows[i])]

\* b.* plus the three enrichment columns
Enriched(b, movie_key, score, reliability) ==
    [title |-> b.title, year |-> b.year, region |-> b.region,
     imdb_id |-> b.imdb_id, imdb_url |-> b.imdb_url, douban_id |-> b.douban_id,
     douban_url |-> b.douban_url,
     imdb_rating |-> b.imdb_rating, imdb_votes |-> b.imdb_votes,
     douban_rating |-> b.douban_rating, douban_votes |-> b.douban_votes,
     gap |-> b.gap,
     movie_key |-> movie_key, score |-> score, reliability |-> reliability]

\* The rows of one base row in base_movies b LEFT JOIN analytics_subset a
\* ON b.imdb_id = a.imdb_id: one per matching a-row, or one with NULLs.
JoinedRows(b, analytics) ==
    LET hits == SelectSeq(analytics,
                   LAMBDA a : ~IsNull(b.imdb_id) /\ ~IsNull(a.imdb_id)
                              /\ Val(a.imdb_id) = Val(b.imdb_id))
    IN IF hits = << >>
       THEN << Enriched(b, NULL, NULL, NULL) >>
       ELSE [i \in 1..Len(hits) |->
                Enriched(b, hits[i].movie_key, hits[i].score, hits[i].reliability)]

RECURSIVE HybridMovies(_, _)
HybridMovies(base, analytics) ==
    IF base = << >> THEN << >>
    ELSE JoinedRows(Head(base), analytics) \o HybridMovies(Tail(base), analytics)

\* A fallback that keeps only the rows an inner join could have matched
FallbackMoviesDroppingRows(base) ==
    LET kept == SelectSeq(base, LAMBDA b : ~IsNull(b.imdb_id))
    IN [i \in 1..Len(kept) |-> Enriched(kept[i], NULL, NULL, NULL)]

\* SELECT *, NULL AS movie_key, NULL AS score, NULL AS reliability FROM base_movies
FallbackMovies(base) ==
    [i \in 1..Len(base) |-> Enriched(base[i], NULL, NULL, NULL)]

----------------------------------------------------------------------------
(* Processes and databases *)

LifespanProc == 0
Workers == 1..NumWorkers
Procs == {LifespanProc} \cup Workers

\* duckdb.connect(DB_PATH) with the default ":memory:": a fresh empty database
EmptyDb ==
    [base_movies |-> NULL, analytics_subset |-> NULL, movies |-> NULL,
     indexes |-> FALSE, closed |-> FALSE]

NoRequest == [sort |-> "none"]
NoResponse == [status |-> 0]

\* What an exception leaving get_db does to its caller: the lifespan startup
\* fails; list_movies calls get_db outside its try block, so the framework
\* answers with its plain 500.  The local has_analytics ends with the call.
Raise(p) ==
    /\ has_analytics' = [has_analytics EXCEPT ![p] = FALSE]
    /\ IF p = LifespanProc
       THEN /\ pc' = [pc EXCEPT ![p] = "failed"]
            /\ UNCHANGED resp
       ELSE /\ pc' = [pc EXCEPT ![p] = "idle"]
            /\ resp' = [resp EXCEPT ![p] =
                           [status |-> 500, detail |-> <<"Internal Server Error">>]]

\* con.execute(...) needs a live connection in the global
Usable == ~IsNull(con) /\ ~dbs[Val(con)].closed

----------------------------------------------------------------------------
(* get_db, statement by statement; every statement reads the global con *)

\* if con is None:
GetDbCheck(p) ==
    /\ pc[p] = "get_db"
    /\ pc' = [pc EXCEPT ![p] = IF IsNull(con) THEN "connect" ELSE "return"]
    /\ UNCHANGED <<csv, parquet, lifespanOn, con, dbs, has_analytics, db, req, resp>>

\* con = duckdb.connect(DB_PATH); PRAGMA threads
Connect(p) ==
    /\ pc[p] = "connect"
    /\ dbs' = Append(dbs, EmptyDb)
    /\ con' = Some(Len(dbs) + 1)
    /\ pc' = [pc EXCEPT ![p] = "base"]
    /\ UNCHANGED <<csv, parquet, lifespanOn, has_analytics, db, req, resp>>

\* CREATE TABLE base_movies AS ...
CreateBaseMovies(p) ==
    /\ pc[p] = "base"
    /\ IF Usable /\ ~IsNull(csv) /\ IsNull(dbs[Val(con)].base_movies)
       THEN /\ dbs' = [dbs EXCEPT ![Val(con)].base_movies = Some(BaseMovies(Val(csv)))]
            /\ pc' = [pc EXCEPT ![p] = "analytics"]
            /\ UNCHANGED <<resp, has_analytics>>
       ELSE /\ Raise(p)
            /\ UNCHANGED dbs
    /\ UNCHANGED <<csv, parquet, lifespanOn, con, db, req>>

\* has_analytics = False; try: CREATE TABLE analytics_subset ...; except: warn
LoadAnalytics(p) ==
    /\ pc[p] = "analytics"
    /\ IF Usable /\ ~IsNull(parquet) /\ IsNull(dbs[Val(con)].analytics_subset)
       THEN /\ dbs' = [dbs EXCEPT ![Val(con)].analytics_subset = parquet]
            /\ has_analytics' = [has_analytics EXCEPT ![p] = TRUE]
       ELSE /\ has_analytics' = [has_analytics EXCEPT ![p] = FALSE]
            /\ UNCHANGED dbs
    /\ pc' = [pc EXCEPT ![p] = "movies"]
    /\ UNCHANGED <<csv, parquet, lifespanOn, con, db, req, resp>>

\* CREATE TABLE movies AS ... (left join, or the fallback without parquet)
CreateMovies(p) ==
    /\ pc[p] = "movies"
    /\ IF /\ Usable
          /\ ~IsNull(dbs[Val(con)].base_movies)
          /\ IsNull(dbs[Val(con)].movies)
          /\ has_analytics[p] => ~IsNull(dbs[Val(con)].analytics_subset)
       THEN /\ dbs' = [dbs EXCEPT ![Val(con)].movies =
                         IF has_analytics[p]
                         THEN Some(HybridMovies(Val(dbs[Val(con)].base_movies),
                                                Val(dbs[Val(con)].analytics_subset)))
                         ELSE Some(FallbackMovies(Val(dbs[Val(con)].base_movies)))]
            /\ pc' = [pc EXCEPT ![p] = "index"]
            /\ UNCHANGED <<resp, has_analytics>>
       ELSE /\ Raise(p)
            /\ UNCHANGED dbs
    /\ UNCHANGED <<csv, parquet, lifespanOn, con, db, req>>

\* CREATE INDEX IF NOT EXISTS ... ON movies(...), three times
CreateIndexes(p) ==
    /\ pc[p] = "index"
    /\ IF Usable /\ ~IsNull(dbs[Val(con)].movies)
       THEN /\ dbs' = [dbs EXCEPT ![Val(con)].indexes = TRUE]
            /\ pc' = [pc EXCEPT ![p] = "return"]
            /\ UNCHANGED <<resp, has_analytics>>
       ELSE /\ Raise(p)
            /\ UNCHANGED dbs
    /\ UNCHANGED <<csv, parquet, lifespanOn, con, db, req>>

\* return con: to lifespan (which then yields) or to list_movies (db = get_db())
GetDbReturn(p) ==
    /\ pc[p] = "return"
    /\ IF p = LifespanProc
       THEN /\ pc' = [pc EXCEPT ![p] = "yield"]
            /\ UNCHANGED db
       ELSE /\ pc' = [pc EXCEPT ![p] = "query"]
            /\ db' = [db EXCEPT ![p] = con]
    /\ has_analytics' = [has_analytics EXCEPT ![p] = FALSE]
    /\ UNCHANGED <<csv, parquet, lifespanOn, con, dbs, req, resp>>

\* lifespan after the yield: if con: con.close(); con = None.  The server
\* runs it once no request is in flight.
Shutdown ==
    /\ pc[LifespanProc] = "yield"
    /\ \A t \in Workers : pc[t] = "idle"
    /\ IF ~IsNull(con)
       THEN dbs' = [dbs EXCEPT ![Val(con)].closed = TRUE]
       ELSE UNCHANGED dbs
    /\ con' = NULL
    /\ pc' = [pc EXCEPT ![LifespanProc] = "stopped"]
    /\ UNCHANGED <<csv, parquet, lifespanOn, has_analytics, db, req, resp>>

----------------------------------------------------------------------------
(* list_movies: the filter compiler *)

\* Python truthiness of Optional[str]: None and the empty string are false
TruthyText(x) == ~IsNull(x) /\ Val(x) # << >>
TruthyName(x) == ~IsNull(x) /\ Val(x) # ""

\* A floor that is added although it is zero
HasReliabilityFloorAlways(min_reliability) == min_reliability >= 0

\* if min_reliability > 0:
HasReliabilityFloor(min_reliability) == min_reliability > 0

WhereClauses(r) ==
    <<"1=1">>
    \o (IF TruthyText(r.q) THEN <<"lower(title) LIKE lower(?)">> ELSE << >>)
    \o (IF TruthyName(r.region) THEN <<"region = ?">> ELSE << >>)
    \o (IF ~IsNull(r.year_min) THEN <<"year >= ?">> ELSE << >>)
    \o (IF ~IsNull(r.year_max) THEN <<"year <= ?">> ELSE << >>)
    \o (IF HasReliabilityFloor(r.min_reliability) THEN <<"reliability >= ?">> ELSE << >>)

Params(r) ==
    (IF TruthyText(r.q) THEN << <<"%">> \o Val(r.q) \o <<"%">> >> ELSE << >>)
    \o (IF TruthyName(r.region) THEN <<Val(r.region)>> ELSE << >>)
    \o (IF ~IsNull(r.year_min) THEN <<Val(r.year_min)>> ELSE << >>)
    \o (IF ~IsNull(r.year_max) THEN <<Val(r.year_max)>> ELSE << >>)
    \o (IF HasReliabilityFloor(r.min_reliability) THEN <<r.min_reliability>> ELSE << >>)

----------------------------------------------------------------------------
(* The engine's WHERE: three-valued logic, "T" / "F" / "U" (unknown) *)

Bool3(b) == IF b THEN "T" ELSE "F"

And3(a, b) ==
    IF a = "F" \/ b = "F" THEN "F"
    ELSE IF a = "U" \/ b = "U" THEN "U"
    ELSE "T"

\* One fragment on one row, with its bound parameter (unused by 1=1)
EvalClause(clause, param, row) ==
    CASE clause = "1=1" -> "T"
      [] clause = "lower(title) LIKE lower(?)" ->
            IF IsNull(row.title) THEN "U"
            ELSE Bool3(Like(Lower(Val(row.title)), Lower(param)))
      [] clause = "region = ?" ->
            IF IsNull(row.region) THEN "U" ELSE Bool3(Val(row.region) = param)
      [] clause = "year >= ?" ->
            IF IsNull(row.year) THEN "U" ELSE Bool3(Val(row.year) >= param)
      [] clause = "year <= ?" ->
            IF IsNull(row.year) THEN "U" ELSE Bool3(Val(row.year) <= param)
      [] clause = "reliability >= ?" ->
            IF IsNull(row.reliability) THEN "U"
            ELSE Bool3(Val(row.reliability) >= param)

\* " AND ".join(where_clauses) with the placeholders bound left to right
RECURSIVE EvalWhere(_, _, _)
EvalWhere(clauses, params, row) ==
    IF clauses = << >> THEN "T"
    ELSE IF Head(clauses) = "1=1"
         THEN And3("T", EvalWhere(Tail(clauses), params, row))
    ELSE And3(EvalClause(Head(clauses), Head(params), row),
              EvalWhere(Tail(clauses), Tail(params), row))

\* FROM movies WHERE where_sql: the rows on which the predicate is true
Matching(movies, clauses, params) ==
    SelectSeq(movies, LAMBDA row : EvalWhere(clauses, params, row) = "T")

\* SELECT COUNT(*) FROM movies WHERE where_sql
CountRows(movies, clauses, params) == Len(Matching(movies, clauses, params))

----------------------------------------------------------------------------
(* list_movies: the sort resolver and ORDER BY *)

SortOptions ==
    {"score_desc", "score_asc", "reliability_desc", "gap_desc", "gap_asc",
     "year_desc", "year_asc", "imdb_desc", "douban_desc", "votes_desc"}

OrderBy(expr, desc, nulls_last) == [expr |-> expr, desc |-> desc, nulls_last |-> nulls_last]

\* The map with NULLS LAST left out of one descending key, where the engine
\* then puts the NULLs first
sort_map_nulls_first ==
    [k \in {"score_desc", "score_asc", "reliability_desc", "gap_desc",
            "year_desc", "imdb_desc", "douban_desc", "votes_desc"} |->
        CASE k = "score_desc" -> OrderBy("score", TRUE, TRUE)
          [] k = "score_asc" -> OrderBy("score", FALSE, TRUE)
          [] k = "reliability_desc" -> OrderBy("reliability", TRUE, TRUE)
          [] k = "gap_desc" -> OrderBy("abs(gap)", TRUE, TRUE)
          [] k = "year_desc" -> OrderBy("year", TRUE, TRUE)
          [] k = "imdb_desc" -> OrderBy("imdb_rating", TRUE, FALSE)
          [] k = "douban_desc" -> OrderBy("douban_rating", TRUE, TRUE)
          [] k = "votes_desc" -> OrderBy("votes", TRUE, TRUE)]

\* sort_map; votes_desc has no NULLS clause and gets the engine's default,
\* NULLS LAST
sort_map ==
    [k \in {"score_desc", "score_asc", "reliability_desc", "gap_desc",
            "year_desc", "imdb_desc", "douban_desc", "votes_desc"} |->
        CASE k = "score_desc" -> OrderBy("score", TRUE, TRUE)
          [] k = "score_asc" -> OrderBy("score", FALSE, TRUE)
          [] k = "reliability_desc" -> OrderBy("reliability", TRUE, TRUE)
          [] k = "gap_desc" -> OrderBy("abs(gap)", TRUE, TRUE)
          [] k = "year_desc" -> OrderBy("year", TRUE, TRUE)
          [] k = "imdb_desc" -> OrderBy("imdb_rating", TRUE, TRUE)
          [] k = "douban_desc" -> OrderBy("douban_rating", TRUE, TRUE)
          [] k = "votes_desc" -> OrderBy("votes", TRUE, TRUE)]

\* A resolver that falls back to the most recent year
OrderSqlYearDefault(sort) ==
    IF sort \in DOMAIN sort_map THEN sort_map[sort] ELSE OrderBy("year", TRUE, TRUE)

\* order_sql = sort_map.get(sort, "score DESC NULLS LAST")
OrderSql(sort) ==
    IF sort \in DOMAIN sort_map THEN sort_map[sort] ELSE OrderBy("score", TRUE, TRUE)

\* The value of an ORDER BY expression on a row
SortValue(expr, row) ==
    CASE expr = "score" -> row.score
      [] expr = "reliability" -> row.reliability
      [] expr = "abs(gap)" -> IF IsNull(row.gap) THEN NULL ELSE Some(Abs(Val(row.gap)))
      [] expr = "year" -> row.year
      [] expr = "imdb_rating" -> row.imdb_rating
      [] expr = "douban_rating" -> row.douban_rating
      [] expr = "votes" ->
            Some(Val(Coalesce(row.imdb_votes, Some(0)))
                 + Val(Coalesce(row.douban_votes, Some(0))))

\* a must come strictly before b under the ordering
Before(order, a, b) ==
    LET x == SortValue(order.expr, a)
        y == SortValue(order.expr, b)
    IN CASE IsNull(x) /\ IsNull(y) -> FALSE
         [] IsNull(x) -> ~order.nulls_last
         [] IsNull(y) -> order.nulls_last
         [] OTHER -> IF order.desc THEN Val(x) > Val(y) ELSE Val(x) < Val(y)

Orderings(n) == { f \in [1..n -> 1..n] : \A i, j \in 1..n : f[i] = f[j] => i = j }

\* Every result ORDER BY may deliver: the engine promises no order among rows
\* that tie on the expression, and separate statements may order them
\* differently.
SortedResults(rows, order) ==
    { [i \in 1..Len(rows) |-> rows[f[i]]] :
        f \in { g \in Orderings(Len(rows)) :
                  \A i, j \in 1..Len(rows) :
                      i < j => ~Before(order, rows[g[j]], rows[g[i]]) } }

\* An offset counted in whole pages from page number 'page'
OffsetOnePageLate(page, page_size) == page * page_size

\* offset = (page - 1) * page_size
Offset(page, page_size) == (page - 1) * page_size

\* LIMIT ? OFFSET ?
LimitOffset(sorted, limit, offset) ==
    SubSeq(sorted, offset + 1, Min(Len(sorted), offset + limit))

----------------------------------------------------------------------------
(* list_movies: the row projector and the response *)

\* Movie(...): title is the one required str field, so a NULL title fails
\* validation; row_dict.get('title', 'Unknown') defaults only a missing column.
Projectable(row) == ~IsNull(row.title)

Movie(row) ==
    [movie_key |-> row.movie_key, title |-> Val(row.title), year |-> row.year,
     region |-> row.region, imdb_id |-> row.imdb_id, douban_id |-> row.douban_id,
     imdb_url |-> row.imdb_url, douban_url |-> row.douban_url,
     score |-> row.score, reliability |-> row.reliability,
     imdb_rating |-> row.imdb_rating, imdb_votes |-> row.imdb_votes,
     douban_rating |-> row.douban_rating, douban_votes |-> row.douban_votes,
     gap |-> row.gap]

MovieResponse(page, page_size, total, items) ==
    [status |-> 200, page |-> page, page_size |-> page_size,
     total |-> total, items |-> items]

\* raise HTTPException(status_code=500, detail=f"Database Error: {str(e)}")
DatabaseError(e) == [status |-> 500, detail |-> <<"Database Error: ", e>>]

\* What db.execute raises on the handle get_db returned, "" when it runs
ExecuteError(h) ==
    IF IsNull(h) THEN "'NoneType' object has no attribute 'execute'"
    ELSE IF dbs[Val(h)].closed THEN "Connection Error: Connection already closed!"
    ELSE IF IsNull(dbs[Val(h)].movies)
         THEN "Catalog Error: Table with name movies does not exist!"
    ELSE ""

ValidationError == "1 validation error for Movie title"

\* The body of list_movies after db = get_db(): compile, count, select, project
RunQuery(t) ==
    /\ pc[t] = "query"
    /\ LET r == req[t]
           clauses == WhereClauses(r)
           params == Params(r)
           order_sql == OrderSql(r.sort)
           offset == Offset(r.page, r.page_size)
       IN IF ExecuteError(db[t]) # ""
          THEN resp' = [resp EXCEPT ![t] = DatabaseError(ExecuteError(db[t]))]
          ELSE LET movies == Val(dbs[Val(db[t])].movies)
                   total == CountRows(movies, clauses, params)
               IN \E sorted \in SortedResults(Matching(movies, clauses, params), order_sql) :
                     LET rows == LimitOffset(sorted, r.page_size, offset)
                     IN IF \A i \in 1..Len(rows) : Projectable(rows[i])
                        THEN resp' = [resp EXCEPT ![t] =
                                        MovieResponse(r.page, r.page_size, total,
                                            [i \in 1..Len(rows) |-> Movie(rows[i])])]
                        ELSE resp' = [resp EXCEPT ![t] = DatabaseError(ValidationError)]
    /\ pc' = [pc EXCEPT ![t] = "idle"]
    /\ UNCHANGED <<csv, parquet, lifespanOn, con, dbs, has_analytics, db, req>>

\* A /movies request reaches list_movies, a fresh call with its own locals,
\* which first calls get_db().  Under the lifespan protocol requests are
\* served between startup and shutdown.
Request(t, r) ==
    /\ pc[t] = "idle"
    /\ lifespanOn => pc[LifespanProc] = "yield"
    /\ req' = [req EXCEPT ![t] = r]
    /\ resp' = [resp EXCEPT ![t] = NoResponse]
    /\ db' = [db EXCEPT ![t] = NULL]
    /\ pc' = [pc EXCEPT ![t] = "get_db"]
    /\ UNCHANGED <<csv, parquet, lifespanOn, con, dbs, has_analytics>>

----------------------------------------------------------------------------
(* Requests *)

QueryRequest(q, region, year_min, year_max, min_reliability, sort, page, page_size) ==
    [q |-> q, region |-> region, year_min |-> year_min, year_max |-> year_max,
     min_reliability |-> min_reliability, sort |-> sort,
     page |-> page, page_size |-> page_size]

\* Valid query parameters: the search terms include the LIKE metacharacters
Requests ==
    { QueryRequest(q, region, year_min, year_max, min_reliability, sort, page, page_size) :
        q \in {NULL, Some(<<"B">>), Some(<<"%">>)},
        region \in {NULL, Some("US")},
        year_min \in {NULL, Some(2005)},
        year_max \in {NULL, Some(2005)},
        min_reliability \in {0, 5},
        sort \in SortOptions,
        page \in 1..MaxPage,
        page_size \in 1..MaxPageSize }

\* The first two pages of the default listing, one row a page
PagingRequests ==
    { QueryRequest(NULL, NULL, NULL, NULL, 0, "score_desc", page, 1) : page \in {1, 2} }

----------------------------------------------------------------------------
(* The process from its start: lifespan startup (when the server runs the   *)
(* lifespan protocol) or lazy initialisation by the first requests.         *)

StartupCatalogue == Catalogue({1, 2, 4})

Init ==
    /\ csv \in {NULL, Some(StartupCatalogue)}
    /\ parquet \in {NULL, Some(ParquetRows)}
    /\ lifespanOn \in BOOLEAN
    /\ con = NULL
    /\ dbs = << >>
    /\ pc = [p \in Procs |->
               IF p = LifespanProc THEN (IF lifespanOn THEN "get_db" ELSE "off")
               ELSE "idle"]
    /\ has_analytics = [p \in Procs |-> FALSE]
    /\ db = [t \in Workers |-> NULL]
    /\ req = [t \in Workers |-> NoRequest]
    /\ resp = [t \in Workers |-> NoResponse]

Next ==
    \/ \E p \in Procs : GetDbCheck(p)
    \/ \E p \in Procs : Connect(p)
    \/ \E p \in Procs : CreateBaseMovies(p)
    \/ \E p \in Procs : LoadAnalytics(p)
    \/ \E p \in Procs : CreateMovies(p)
    \/ \E p \in Procs : CreateIndexes(p)
    \/ \E p \in Procs : GetDbReturn(p)
    \/ \E t \in Workers : \E r \in PagingRequests : Request(t, r)
    \/ \E t \in Workers : RunQuery(t)
    \/ Shutdown

Spec == Init /\ [][Next]_vars

----------------------------------------------------------------------------
(* The service between a successful lifespan startup and shutdown: one      *)
(* worker answering every valid request over every catalogue.               *)

\* The database a lone get_db() leaves behind
BuiltDb(rows, analytics) ==
    [base_movies |-> Some(BaseMovies(rows)),
     analytics_subset |-> analytics,
     movies |-> IF IsNull(analytics)
                THEN Some(FallbackMovies(BaseMovies(rows)))
                ELSE Some(HybridMovies(BaseMovies(rows), Val(analytics))),
     indexes |-> TRUE, closed |-> FALSE]

InitServing ==
    /\ csv \in { Some(c) : c \in Catalogues }
    /\ parquet \in {NULL, Some(ParquetRows)}
    /\ lifespanOn = TRUE
    /\ con = Some(1)
    /\ dbs = << BuiltDb(Val(csv), parquet) >>
    /\ pc = [p \in Procs |-> IF p = LifespanProc THEN "yield" ELSE "idle"]
    /\ has_analytics = [p \in Procs |-> FALSE]
    /\ db = [t \in Workers |-> NULL]
    /\ req = [t \in Workers |-> NoRequest]
    /\ resp = [t \in Workers |-> NoResponse]

\* list_movies changes nothing it reads, so requests are independent of one
\* another: each behaviour follows one request from arrival to response.
NextServing ==
    \/ \E r \in Requests : req[1] = NoRequest /\ Request(1, r)
    \/ GetDbCheck(1)
    \/ GetDbReturn(1)
    \/ RunQuery(1)

SpecServing == InitServing /\ [][NextServing]_vars

\* In Spec, a completed lifespan startup leaves exactly the state InitServing
\* starts from.
StartupReachesServing ==
    (pc[LifespanProc] = "yield" /\ \A t \in Workers : pc[t] = "idle" /\ IsNull(db[t]))
        => /\ con = Some(1)
           /\ dbs = << BuiltDb(Val(csv), parquet) >>
           /\ has_analytics = [p \in Procs |-> FALSE]

----------------------------------------------------------------------------
(* What the claims speak of *)

Served(t) == resp[t].status = 200
Failed(t) == resp[t].status = 500

\* The movies relation behind the handle worker t queried
Relation(t) == Val(dbs[Val(db[t])].movies)

\* The handle worker t holds is a live connection with a movies table
Queryable(t) ==
    /\ ~IsNull(db[t])
    /\ ~dbs[Val(db[t])].closed
    /\ ~IsNull(dbs[Val(db[t])].movies)

\* The row satisfies every filter the request carries
Satisfies(row, r) ==
    /\ TruthyText(r.q) =>
          /\ ~IsNull(row.title)
          /\ Like(Lower(Val(row.title)), Lower(<<"%">> \o Val(r.q) \o <<"%">>))
    /\ TruthyName(r.region) => row.region = r.region
    /\ ~IsNull(r.year_min) => ~IsNull(row.year) /\ Val(row.year) >= Val(r.year_min)
    /\ ~IsNull(r.year_max) => ~IsNull(row.year) /\ Val(row.year) <= Val(r.year_max)
    /\ r.min_reliability > 0 =>
          ~IsNull(row.reliability) /\ Val(row.reliability) >= r.min_reliability

SatisfyingRows(movies, r) == { i \in 1..Len(movies) : Satisfies(movies[i], r) }

\* C1: a served /movies response reports as total the number of rows of the
\* movies relation that satisfy the request's filters, whatever the sort, page
\* and page_size; its items are projections of such rows and there are
\* min(page_size, max(0, total - (page-1)*page_size)) of them; a request fails
\* on a built relation only when a row of its page cannot be projected, so a
\* page past the last one is served, empty, with the same total.
C1_TotalMatchesItems ==
    \A t \in Workers :
        (pc[t] = "idle" /\ resp[t] # NoResponse /\ Queryable(t)) =>
            LET r == req[t]
                good == SatisfyingRows(Relation(t), r)
            IN /\ Served(t) =>
                    /\ resp[t].total = Cardinality(good)
                    /\ resp[t].page = r.page /\ resp[t].page_size = r.page_size
                    /\ Len(resp[t].items) =
                          Min(r.page_size,
                              Max(0, resp[t].total - (r.page - 1) * r.page_size))
                    /\ \A i \in 1..Len(resp[t].items) :
                          \E k \in good :
                             /\ Projectable(Relation(t)[k])
                             /\ resp[t].items[i] = Movie(Relation(t)[k])
               /\ Failed(t) => \E k \in good : ~Projectable(Relation(t)[k])
               /\ (r.page - 1) * r.page_size >= Cardinality(good) =>
                    Served(t) /\ resp[t].items = << >>

\* A page past the last one of a non-empty filtered result has been served
C1_Witness ==
    \E t \in Workers :
        /\ Served(t) /\ resp[t].total > 0 /\ resp[t].items = << >>
        /\ TruthyText(req[t].q) /\ ~IsNull(req[t].year_max)

----------------------------------------------------------------------------
(* Sorted position, stated on the response alone *)

\* The 1-based position in the full result of item i of worker t's page
Position(t, i) == (req[t].page - 1) * req[t].page_size + i

\* x may stand at position g of the satisfying rows ordered by Precedes:
\* fewer than g rows must precede it and at least g rows need not follow it.
MayStandAt(x, g, movies, r, Precedes(_, _)) ==
    /\ Cardinality({ k \in SatisfyingRows(movies, r) : Precedes(movies[k], x) }) <= g - 1
    /\ Cardinality({ k \in SatisfyingRows(movies, r) : ~Precedes(x, movies[k]) }) >= g

\* Descending with NULLs last on a nullable value
DescNullsLast(x, y) == ~IsNull(x) /\ (IsNull(y) \/ Val(x) > Val(y))

ScorePrecedes(a, b) == DescNullsLast(a.score, b.score)
YearPrecedes(a, b) == DescNullsLast(a.year, b.year)

----------------------------------------------------------------------------
(* C4 *)

DescendingKeys ==
    {"score_desc", "reliability_desc", "gap_desc", "year_desc", "imdb_desc",
     "douban_desc", "votes_desc"}

\* The attribute a descending key sorts on, of a row or of a returned record
SortAttribute(key, x) ==
    CASE key = "score_desc" -> x.score
      [] key = "reliability_desc" -> x.reliability
      [] key = "gap_desc" -> x.gap
      [] key = "year_desc" -> x.year
      [] key = "imdb_desc" -> x.imdb_rating
      [] key = "douban_desc" -> x.douban_rating
      [] key = "votes_desc" ->
            Some((IF IsNull(x.imdb_votes) THEN 0 ELSE Val(x.imdb_votes))
                 + (IF IsNull(x.douban_votes) THEN 0 ELSE Val(x.douban_votes)))

\* C4: under every descending sort key of the map, the records with a
\* non-null sort attribute fill the first positions of the result and the
\* records with a null one come after all of them, on every page; the value
\* votes_desc sorts on is never null.
C4_NullsAfterValues ==
    \A t \in Workers :
        (Served(t) /\ req[t].sort \in DescendingKeys) =>
            LET key == req[t].sort
                valued == { k \in SatisfyingRows(Relation(t), req[t]) :
                              ~IsNull(SortAttribute(key, Relation(t)[k])) }
            IN /\ \A i \in 1..Len(resp[t].items) :
                     IsNull(SortAttribute(key, resp[t].items[i]))
                        <=> Position(t, i) > Cardinality(valued)
               /\ \A k \in 1..Len(Relation(t)) :
                     ~IsNull(SortValue(OrderSql("votes_desc").expr, Relation(t)[k]))

\* A page holding a record with the attribute and, after it, one without
C4_Witness ==
    \E t \in Workers :
        /\ Served(t) /\ req[t].sort = "imdb_desc" /\ Len(resp[t].items) = 2
        /\ ~IsNull(resp[t].items[1].imdb_rating)
        /\ IsNull(resp[t].items[2].imdb_rating)

----------------------------------------------------------------------------
(* C5 *)

\* The accepted sort keys the map has no entry for
UnmappedKeys == {"gap_asc", "year_asc"}

----------------------------------------------------------------------------
(* C6 *)

\* sub occurs in s as a contiguous run of characters
Contains(s, sub) ==
    \E i \in 0..(Len(s) - Len(sub)) : SubSeq(s, i + 1, i + Len(sub)) = sub

\* The row satisfies the request with the search term read as literal text
SatisfiesLiterally(row, r) ==
    /\ Satisfies(row, [r EXCEPT !.q = NULL])
    /\ ~IsNull(row.title)
    /\ Contains(Lower(Val(row.title)), Lower(Val(r.q)))

\* C6 as claimed: with a search term, the rows counted and returned are
\* exactly those whose title contains the term as literal text, ignoring
\* case, whatever metacharacters the term holds.
C6_SearchTermIsLiteral ==
    \A t \in Workers :
        (Served(t) /\ TruthyText(req[t].q)) =>
            /\ resp[t].total =
                  Cardinality({ k \in 1..Len(Relation(t)) :
                                  SatisfiesLiterally(Relation(t)[k], req[t]) })
            /\ \A i \in 1..Len(resp[t].items) :
                  Contains(Lower(resp[t].items[i].title), Lower(Val(req[t].q)))

----------------------------------------------------------------------------
(* C8 *)

\* The row passes the other filters and its reliability, NULL read as 0,
\* reaches the floor
PassesCoalescedFloor(row, r) ==
    /\ Satisfies(row, [r EXCEPT !.min_reliability = 0])
    /\ (IF IsNull(row.reliability) THEN 0 ELSE Val(row.reliability)) >= r.min_reliability

\* C8: the compiled predicate keeps a row exactly when it passes the other
\* filters and its reliability with NULL read as 0 reaches the floor, and the
\* response counts and returns those rows: a floor of 0 keeps rows without
\* reliability, a floor above 0 removes them.
C8_FloorOnCoalescedReliability ==
    \A t \in Workers :
        (req[t] # NoRequest /\ Queryable(t)) =>
            /\ \A k \in 1..Len(Relation(t)) :
                  (EvalWhere(WhereClauses(req[t]), Params(req[t]), Relation(t)[k]) = "T")
                     <=> PassesCoalescedFloor(Relation(t)[k], req[t])
            /\ Served(t) =>
                  /\ resp[t].total =
                        Cardinality({ k \in 1..Len(Relation(t)) :
                                        PassesCoalescedFloor(Relation(t)[k], req[t]) })
                  /\ \A i \in 1..Len(resp[t].items) :
                        (IF IsNull(resp[t].items[i].reliability) THEN 0
                         ELSE Val(resp[t].items[i].reliability)) >= req[t].min_reliability

\* A floor of 0 served with a record that has no reliability
C8_Witness ==
    \E t \in Workers :
        /\ Served(t) /\ req[t].min_reliability = 0
        /\ \E i \in 1..Len(resp[t].items) : IsNull(resp[t].items[i].reliability)
        /\ \E k \in 1..Len(Relation(t)) : ~IsNull(Relation(t)[k].reliability)

----------------------------------------------------------------------------
(* C9 *)

\* The texts of the exceptions the queries and the projection raise
InternalErrorTexts ==
    { "'NoneType' object has no attribute 'execute'",
      "Connection Error: Connection already closed!",
      "Catalog Error: Table with name movies does not exist!",
      ValidationError }

\* C9 as claimed: a failed /movies request carries no page envelope and no
\* items, and nothing of the failure's own text.
C9_ErrorIsGeneric ==
    \A t \in Workers :
        Failed(t) =>
            /\ DOMAIN resp[t] = {"status", "detail"}
            /\ \A i \in 1..Len(resp[t].detail) : resp[t].detail[i] \notin InternalErrorTexts

----------------------------------------------------------------------------
(* C2 *)

RECURSIVE Concatenation(_)
Concatenation(seqs) ==
    IF seqs = << >> THEN << >> ELSE Head(seqs) \o Concatenation(Tail(seqs))

\* The first n records of every full sorted result of worker t's request
SortedPrefixes(t, n) ==
    { [i \in 1..Min(n, Len(sorted)) |-> Movie(sorted[i])] :
        sorted \in { s \in SortedResults(
                              Matching(Relation(t), WhereClauses(req[t]), Params(req[t])),
                              OrderSql(req[t].sort)) :
                       \A i \in 1..Min(n, Len(s)) : Projectable(s[i]) } }

\* Workers w[1..k] were served pages 1..k of one listing on one handle,
\* between a lifespan startup and the shutdown
ConsecutivePages(w, k) ==
    /\ pc[LifespanProc] = "yield"
    /\ \A i, j \in 1..k : w[i] = w[j] => i = j
    /\ \A i \in 1..k :
          /\ pc[w[i]] = "idle" /\ Served(w[i]) /\ Queryable(w[i])
          /\ db[w[i]] = db[w[1]]
          /\ req[w[i]] = [req[w[1]] EXCEPT !.page = i]

\* C2 as claimed: the items of separately served pages 1..k of one listing,
\* put end to end, are the first k*page_size records of one full sorted
\* result: nothing skipped, nothing twice.
C2_PagesTileTheResult ==
    \A k \in 1..NumWorkers :
        \A w \in [1..k -> Workers] :
            ConsecutivePages(w, k) =>
                Concatenation([i \in 1..k |-> resp[w[i]].items])
                    \in SortedPrefixes(w[1], k * req[w[1]].page_size)

----------------------------------------------------------------------------
(* C3 *)

\* C3 as claimed: the construction sequence runs at most once in the life of
\* the process (one connect, one base_movies, one movies, one set of
\* indexes) and every caller of get_db holds the same handle.
C3_BuiltOnceOneHandle ==
    /\ Len(dbs) <= 1
    /\ Cardinality({ h \in 1..Len(dbs) : ~IsNull(dbs[h].base_movies) }) <= 1
    /\ Cardinality({ h \in 1..Len(dbs) : ~IsNull(dbs[h].movies) }) <= 1
    /\ Cardinality({ h \in 1..Len(dbs) : dbs[h].indexes }) <= 1
    /\ \A t, u \in Workers : (~IsNull(db[t]) /\ ~IsNull(db[u])) => db[t] = db[u]

----------------------------------------------------------------------------
(* C7 *)

\* The base columns of a row of movies
BaseColumns(m) ==
    [title |-> m.title, year |-> m.year, region |-> m.region,
     imdb_id |-> m.imdb_id, imdb_url |-> m.imdb_url, douban_id |-> m.douban_id,
     douban_url |-> m.douban_url,
     imdb_rating |-> m.imdb_rating, imdb_votes |-> m.imdb_votes,
     douban_rating |-> m.douban_rating, douban_votes |-> m.douban_votes,
     gap |-> m.gap]

\* C7: without the analytics parquet, a startup over a readable CSV does not
\* fail, every movies relation built has exactly the rows of base_movies (as
\* many as the CSV has) with movie_key, score and reliability NULL, and every
\* record a response returns has the three NULL.
C7_DegradedMode ==
    IsNull(parquet) =>
        /\ (lifespanOn /\ ~IsNull(csv)) => pc[LifespanProc] # "failed"
        /\ \A p \in Procs : ~has_analytics[p]
        /\ \A h \in 1..Len(dbs) :
              ~IsNull(dbs[h].movies) =>
                  /\ ~IsNull(dbs[h].base_movies)
                  /\ Len(Val(dbs[h].movies)) = Len(Val(csv))
                  /\ Len(Val(dbs[h].movies)) = Len(Val(dbs[h].base_movies))
                  /\ \A i \in 1..Len(Val(dbs[h].movies)) :
                        LET m == Val(dbs[h].movies)[i]
                        IN /\ BaseColumns(m) = Val(dbs[h].base_movies)[i]
                           /\ IsNull(m.movie_key) /\ IsNull(m.score)
                           /\ IsNull(m.reliability)
        /\ \A t \in Workers :
              Served(t) =>
                  \A i \in 1..Len(resp[t].items) :
                      /\ IsNull(resp[t].items[i].movie_key)
                      /\ IsNull(resp[t].items[i].score)
                      /\ IsNull(resp[t].items[i].reliability)

\* Started without the parquet, the service has answered with a record
C7_Witness ==
    /\ IsNull(parquet) /\ pc[LifespanProc] = "yield"
    /\ \E t \in Workers : Served(t) /\ Len(resp[t].items) = 1
                          /\ resp[t].total = Len(Val(csv))

----------------------------------------------------------------------------
(* C10 *)

\* C10 as claimed, for the handles get_db hands out: every handle a caller
\* of get_db received has the movies table (the global handle is set before
\* any table exists and stays set when the construction fails).
C10_ReturnedHandleHasMovies ==
    /\ pc[LifespanProc] = "yield" => (~IsNull(con) /\ ~IsNull(dbs[Val(con)].movies))
    /\ \A t \in Workers :
          ~IsNull(db[t]) => ~IsNull(dbs[Val(db[t])].movies)

====
